---- MODULE Spec2Model ----
(***************************************************************************)
(* Platziflix API: JWT authentication (app/core/auth.py, app/core/config.py)*)
(* and the rating endpoints it protects (exercised by                      *)
(* app/tests/test_rating_endpoints.py).                                    *)
(*                                                                         *)
(* Time is counted in clock ticks, TicksPerSec ticks to the second, so the *)
(* whole-second "exp" of a JWT is distinguishable from the sub-second      *)
(* clock that datetime.utcnow() reads.                                     *)
(***************************************************************************)
EXTENDS Integers, Sequences, FiniteSets, TLC

VARIABLES now, held, issued, req, ratings, reqs, decoded

vars == <<now, held, issued, req, ratings, reqs, decoded>>

(***************************************************************************)
(* Settings (config.py)                                                    *)
(***************************************************************************)
jwt_secret_key == "your-secret-key-change-in-production"
jwt_algorithm == "HS256"
jwt_access_token_expire_minutes == 30

(***************************************************************************)
(* Bounds of the model                                                     *)
(***************************************************************************)
TicksPerSec == 2
EarlyWindow == 1
LateWindow == 2
MaxUserId == 2

\* timedelta(minutes = m), in ticks
timedelta_minutes(m) == m * 60 * TicksPerSec

TTLTicks == timedelta_minutes(jwt_access_token_expire_minutes)

\* The instants the clock is observed at: just after start-up and around
\* the expiry of a token issued just after start-up.
Instants == (0..EarlyWindow) \cup ((TTLTicks - LateWindow)..(TTLTicks + LateWindow))

UserIds == 0..MaxUserId
OwnerIds == 1..MaxUserId
Courses == {1}
CourseIds == {1, 999}
RatingValues == {5}

(***************************************************************************)
(* Python / JSON values.  A JSON value is tagged with its type; None is    *)
(* JNull and a key missing from a dict is JAbsent.                         *)
(***************************************************************************)
JInt(i) == [t |-> "int", n |-> i, s |-> ""]
JStr(x) == [t |-> "str", n |-> 0, s |-> x]
JNull == [t |-> "null", n |-> 0, s |-> ""]
JAbsent == [t |-> "absent", n |-> 0, s |-> ""]

\* dict.get(key): a missing key reads as None
dict_get(j) == IF j.t = "absent" THEN JNull ELSE j

None == [k |-> "None"]
Raise(e) == [k |-> "raise", exc |-> e, status_code |-> 500, detail |-> "Internal Server Error"]
HTTPException(code, msg) == [k |-> "raise", exc |-> "HTTPException", status_code |-> code, detail |-> msg]

Emails == {JNull, JStr("test@example.com")}

(***************************************************************************)
(* Token Codec: PyJWT as used by auth.py                                   *)
(*                                                                         *)
(* A token is the triple the compact serialisation carries: the header's   *)
(* algorithm tag, the payload, and the key its signature was made with.    *)
(* wellformed is FALSE for a string that is no three-segment JWT at all.   *)
(***************************************************************************)
Token(alg, key, payload) == [k |-> "token", wellformed |-> TRUE, alg |-> alg, key |-> key, payload |-> payload]
Garbage == [k |-> "token", wellformed |-> FALSE, alg |-> "", key |-> "",
            payload |-> [user_id |-> JAbsent, email |-> JAbsent, exp |-> JAbsent]]

\* jwt.encode: a datetime "exp" is serialised as whole seconds since the
\* epoch (timegm(utctimetuple())), which drops the sub-second part.
jwt_encode(payload, key, algorithm) ==
    Token(algorithm, key,
          [payload EXCEPT !.exp = IF @.t = "int" THEN JInt(@.n \div TicksPerSec) ELSE @])

\* create_access_token that leaves the email out of the payload
create_access_token_without_email(user_id, email, utcnow) ==
    LET expire == utcnow + timedelta_minutes(jwt_access_token_expire_minutes)
        payload == [user_id |-> JInt(user_id), email |-> JNull, exp |-> JInt(expire)]
    IN  jwt_encode(payload, jwt_secret_key, jwt_algorithm)

\* create_access_token(user_id, email), with utcnow the reading of
\* datetime.utcnow() in ticks; the datetime "expire" is in ticks too.
create_access_token(user_id, email, utcnow) ==
    LET expire == utcnow + timedelta_minutes(jwt_access_token_expire_minutes)
        payload == [user_id |-> JInt(user_id), email |-> email, exp |-> JInt(expire)]
    IN  jwt_encode(payload, jwt_secret_key, jwt_algorithm)

\* The check of "exp" that still accepts a token at the instant it expires
validate_exp_inclusive(exp, t) ==
    CASE exp.t = "absent" -> "ok"
      [] exp.t = "null"   -> "TypeError"
      [] exp.t = "str"    -> "DecodeError"
      [] OTHER            -> IF exp.n * TicksPerSec < t THEN "ExpiredSignatureError" ELSE "ok"

\* The check of "exp" that finds a token expired only at the instant of exp
validate_exp_instant_only(exp, t) ==
    CASE exp.t = "absent" -> "ok"
      [] exp.t = "null"   -> "TypeError"
      [] exp.t = "str"    -> "DecodeError"
      [] OTHER            -> IF exp.n * TicksPerSec = t THEN "ExpiredSignatureError" ELSE "ok"

\* PyJWT's check of the "exp" claim at clock reading t (ticks): absent is
\* not checked, int(None) is a TypeError, int("abc") a DecodeError, and the
\* token is expired when exp <= now.
validate_exp(exp, t) ==
    CASE exp.t = "absent" -> "ok"
      [] exp.t = "null"   -> "TypeError"
      [] exp.t = "str"    -> "DecodeError"
      [] OTHER            -> IF exp.n * TicksPerSec <= t THEN "ExpiredSignatureError" ELSE "ok"

\* jwt.decode that skips the check of the signature and of the algorithm tag
jwt_decode_unverified(token, key, algorithms, t) ==
    IF ~token.wellformed THEN [ok |-> FALSE, exc |-> "DecodeError"]
    ELSE IF validate_exp(token.payload.exp, t) # "ok"
         THEN [ok |-> FALSE, exc |-> validate_exp(token.payload.exp, t)]
    ELSE [ok |-> TRUE, payload |-> token.payload]

\* jwt.decode(token, key, algorithms=[...]) at clock reading t: the payload,
\* or the exception raised.
jwt_decode(token, key, algorithms, t) ==
    IF ~token.wellformed THEN [ok |-> FALSE, exc |-> "DecodeError"]
    ELSE IF token.alg \notin algorithms THEN [ok |-> FALSE, exc |-> "InvalidAlgorithmError"]
    ELSE IF token.key # key THEN [ok |-> FALSE, exc |-> "InvalidSignatureError"]
    ELSE IF validate_exp(token.payload.exp, t) # "ok"
         THEN [ok |-> FALSE, exc |-> validate_exp(token.payload.exp, t)]
    ELSE [ok |-> TRUE, payload |-> token.payload]

\* jwt.InvalidTokenError and its subclasses
InvalidTokenErrors == {"InvalidTokenError", "DecodeError", "InvalidSignatureError",
                       "InvalidAlgorithmError", "ExpiredSignatureError"}

(***************************************************************************)
(* pydantic models of auth.py                                              *)
(***************************************************************************)
NumericStrings == {"0", "1", "2"}
str_to_int(x) == CASE x = "0" -> 0 [] x = "1" -> 1 [] OTHER -> 2

\* field "user_id: int": an int, or a string of digits coerced to one
valid_int(j) == j.t = "int" \/ (j.t = "str" /\ j.s \in NumericStrings)
coerce_int(j) == IF j.t = "str" THEN JInt(str_to_int(j.s)) ELSE j

\* field "email: Optional[str]"
valid_optional_str(j) == j.t \in {"null", "str"}

\* field "exp: Optional[datetime]": None, or seconds since the epoch
valid_optional_datetime(j) == j.t \in {"null", "int"}

\* TokenData(user_id=..., email=..., exp=...): the instance, or ValidationError
TokenData(user_id, email, exp) ==
    IF valid_int(user_id) /\ valid_optional_str(email) /\ valid_optional_datetime(exp)
    THEN [k |-> "TokenData", user_id |-> coerce_int(user_id), email |-> email, exp |-> exp]
    ELSE Raise("ValidationError")

\* User(id=..., email=...)
User(id, email) == [k |-> "User", id |-> id.n, email |-> email]

\* decode_access_token without its last clause, "except Exception"
decode_except_jwt_only(exc) ==
    IF exc = "ExpiredSignatureError" THEN None
    ELSE IF exc \in InvalidTokenErrors THEN None
    ELSE Raise(exc)

\* The except clauses of decode_access_token, in order: what the function
\* returns for an exception raised inside its try block.
decode_except(exc) ==
    IF exc = "ExpiredSignatureError" THEN None
    ELSE IF exc \in InvalidTokenErrors THEN None
    ELSE None

\* decode_access_token(token) at clock reading t
decode_access_token(token, t) ==
    LET r == jwt_decode(token, jwt_secret_key, {jwt_algorithm}, t)
    IN  IF ~r.ok THEN decode_except(r.exc)
        ELSE LET td == TokenData(dict_get(r.payload.user_id),
                                 dict_get(r.payload.email),
                                 dict_get(r.payload.exp))
             IN  IF td.k = "raise" THEN decode_except(td.exc) ELSE td

(***************************************************************************)
(* Credential Extractor and Authentication Guard                           *)
(***************************************************************************)
\* security = HTTPBearer(auto_error=False): the Authorization header's
\* credentials, or None when there is no header or its scheme is not Bearer.
security(scheme, token) ==
    IF scheme = "none" THEN None
    ELSE IF scheme # "Bearer" THEN None
    ELSE [k |-> "HTTPAuthorizationCredentials", scheme |-> scheme, credentials |-> token]

credentials_exception == HTTPException(401, "Could not validate credentials")

\* The guards' local variable token_data (auth.py lines 118-119, 148-149);
\* None when the guard returned before setting it.
guard_token_data(credentials, t) ==
    IF credentials.k = "None" THEN None
    ELSE decode_access_token(credentials.credentials, t)

\* get_current_user that answers a missing credential like an invalid one
get_current_user_one_message(credentials, t) ==
    IF credentials.k = "None" THEN credentials_exception
    ELSE LET token_data == guard_token_data(credentials, t)
         IN  IF token_data.k = "raise" THEN token_data
             ELSE IF token_data.k = "None" THEN credentials_exception
             ELSE IF token_data.user_id = JNull THEN credentials_exception
             ELSE User(token_data.user_id, token_data.email)

\* get_current_user that drops the claim's email from the User
get_current_user_without_email(credentials, t) ==
    IF credentials.k = "None" THEN HTTPException(401, "Authentication required")
    ELSE LET token_data == guard_token_data(credentials, t)
         IN  IF token_data.k = "raise" THEN token_data
             ELSE IF token_data.k = "None" THEN credentials_exception
             ELSE IF token_data.user_id = JNull THEN credentials_exception
             ELSE User(token_data.user_id, JNull)

\* get_current_user(credentials) at clock reading t: the User, or the raise
get_current_user(credentials, t) ==
    IF credentials.k = "None" THEN HTTPException(401, "Authentication required")
    ELSE LET token_data == guard_token_data(credentials, t)
         IN  IF token_data.k = "raise" THEN token_data
             ELSE IF token_data.k = "None" THEN credentials_exception
             ELSE IF token_data.user_id = JNull THEN credentials_exception
             ELSE User(token_data.user_id, token_data.email)

\* get_optional_current_user that rejects a token that does not validate
get_optional_current_user_strict(credentials, t) ==
    IF credentials.k = "None" THEN None
    ELSE LET token_data == guard_token_data(credentials, t)
         IN  IF token_data.k = "raise" THEN token_data
             ELSE IF token_data.k = "None" \/ token_data.user_id = JNull
                  THEN credentials_exception
             ELSE User(token_data.user_id, token_data.email)

\* get_optional_current_user(credentials) at clock reading t
get_optional_current_user(credentials, t) ==
    IF credentials.k = "None" THEN None
    ELSE LET token_data == guard_token_data(credentials, t)
         IN  IF token_data.k = "raise" THEN token_data
             ELSE IF token_data.k = "None" \/ token_data.user_id = JNull THEN None
             ELSE User(token_data.user_id, token_data.email)


(***************************************************************************)
(* Course/Rating service (app/services/course_service.py, mocked by the    *)
(* tests): one rating per (course, user); ratings[u] is user u's rating of *)
(* course 1, 0 when there is none.                                         *)
(***************************************************************************)
\* add_course_rating(course_id, user_id, rating): raises ValueError when the
\* course does not exist
add_course_rating(store, course_id, user_id, rating) ==
    IF course_id \notin Courses THEN [ok |-> FALSE, store |-> store]
    ELSE [ok |-> TRUE, store |-> [store EXCEPT ![user_id] = rating]]

\* update_course_rating(course_id, user_id, rating): raises ValueError when
\* the user has no active rating of the course
update_course_rating(store, course_id, user_id, rating) ==
    IF course_id \notin Courses \/ store[user_id] = 0 THEN [ok |-> FALSE, store |-> store]
    ELSE [ok |-> TRUE, store |-> [store EXCEPT ![user_id] = rating]]

\* delete_course_rating(course_id, user_id): False when there was no rating
delete_course_rating(store, course_id, user_id) ==
    IF course_id \notin Courses \/ store[user_id] = 0 THEN [ok |-> FALSE, store |-> store]
    ELSE [ok |-> TRUE, store |-> [store EXCEPT ![user_id] = 0]]

\* get_user_course_rating(course_id, user_id): the rating, or none
get_user_course_rating(store, course_id, user_id) ==
    IF course_id \notin Courses \/ store[user_id] = 0 THEN [ok |-> FALSE, store |-> store]
    ELSE [ok |-> TRUE, store |-> store]

ServiceCall(name, course_id, user_id) ==
    [k |-> "call", name |-> name, course_id |-> course_id, user_id |-> user_id]

(***************************************************************************)
(* Requests.  One request is in flight at a time; req is its record.       *)
(*   pc: idle -> Unauthenticated -> Authenticated -> Authorized -> Done    *)
(*                      |                 |                                *)
(*                      v                 v                                *)
(*                   Rejected          Forbidden                           *)
(* A GET (public read) goes Unauthenticated -> Public -> Done.             *)
(***************************************************************************)
Idle == [pc |-> "idle", method |-> "", scheme |-> "none", course_id |-> 0, user_id |-> 0,
         token_data |-> None, current_user |-> None, status |-> 0, detail |-> "",
         service_calls |-> <<>>, service_result |-> ""]

Methods == {"POST", "PUT", "DELETE", "GET"}
Schemes == {"none", "Bearer", "Basic"}
Terminal == {"Rejected", "Forbidden", "Done"}

\* An "exp" far beyond the instants of the model, in seconds
FarExp == 2 * (TTLTicks \div TicksPerSec)

Payload(user_id, email, exp) == [user_id |-> user_id, email |-> email, exp |-> exp]

\* Tokens that create_access_token did not make: a string that is no JWT,
\* tokens signed with another secret or algorithm, and payloads signed with
\* the configured secret that create_access_token never builds.
ForgedTokens ==
    { Garbage,
      Token(jwt_algorithm, "attacker-secret", Payload(JInt(1), JNull, JInt(FarExp))),
      Token(jwt_algorithm, "attacker-secret", Payload(JInt(1), JNull, JInt(0))),
      Token("HS512", jwt_secret_key, Payload(JInt(1), JNull, JInt(FarExp))),
      Token("none", "", Payload(JInt(1), JNull, JInt(FarExp))),
      Token(jwt_algorithm, jwt_secret_key, Payload(JAbsent, JNull, JInt(FarExp))),
      Token(jwt_algorithm, jwt_secret_key, Payload(JNull, JNull, JInt(FarExp))),
      Token(jwt_algorithm, jwt_secret_key, Payload(JStr("abc"), JNull, JInt(FarExp))),
      Token(jwt_algorithm, jwt_secret_key, Payload(JStr("2"), JNull, JInt(FarExp))),
      Token(jwt_algorithm, jwt_secret_key, Payload(JInt(1), JInt(7), JInt(FarExp))),
      Token(jwt_algorithm, jwt_secret_key, Payload(JInt(1), JNull, JAbsent)),
      Token(jwt_algorithm, jwt_secret_key, Payload(JInt(1), JNull, JNull)),
      Token(jwt_algorithm, jwt_secret_key, Payload(JInt(1), JNull, JInt(0))) }

\* issued remembers the arguments and the instant of the create_access_token
\* call that made held; NotIssued when held is no such token.
NotIssued == [at |-> -1, user_id |-> 0, email |-> JNull]

\* Bound: the number of requests that are resolved concurrently
NumReq == 2
Requests == 1..NumReq

\* A request of the concurrent resolutions: it carries its own credential.
CIdle == [pc |-> "idle", method |-> "", cred |-> None, user_id |-> 0,
          current_user |-> None, status |-> 0, detail |-> ""]

\* decoded remembers the last result of decode_access_token for held, the
\* instant of that call, and whether a call for held ever returned a claim;
\* NotDecoded when held was not decoded yet.
NotDecoded == [seen |-> FALSE, valid_seen |-> FALSE, last |-> None, at |-> -1]

Init ==
    /\ now = 0
    /\ held = None
    /\ issued = NotIssued
    /\ req = Idle
    /\ ratings = [u \in UserIds |-> 0]
    /\ reqs = [i \in Requests |-> CIdle]
    /\ decoded = NotDecoded

\* The clock moves on.
Tick ==
    /\ \E t \in Instants : t > now /\ now' = t
    /\ UNCHANGED <<held, issued, req, ratings, reqs, decoded>>

\* Login / session start: the client is handed create_access_token's token.
Login(user_id, email) ==
    /\ req.pc = "idle"
    /\ held' = create_access_token(user_id, email, now)
    /\ issued' = [at |-> now, user_id |-> user_id, email |-> email]
    /\ decoded' = NotDecoded
    /\ UNCHANGED <<now, req, ratings, reqs>>

\* The client takes up a token that create_access_token did not make.
Forge(token) ==
    /\ req.pc = "idle"
    /\ held' = token
    /\ issued' = NotIssued
    /\ decoded' = NotDecoded
    /\ UNCHANGED <<now, req, ratings, reqs>>

\* A request arrives; its Authorization header, if any, carries held.
Receive(method, scheme, course_id, user_id) ==
    /\ req.pc = "idle"
    /\ scheme # "none" => held.k = "token"
    /\ method = "POST" => user_id = 0
    /\ method # "POST" => user_id # 0
    /\ req' = [Idle EXCEPT !.pc = "Unauthenticated", !.method = method, !.scheme = scheme,
                           !.course_id = course_id, !.user_id = user_id]
    /\ UNCHANGED <<now, held, issued, ratings, reqs, decoded>>

\* The response the transport layer makes of a raise in a dependency
Reject(r, td) == [req EXCEPT !.pc = "Rejected", !.token_data = td,
                             !.status = r.status_code, !.detail = r.detail]

\* The owner compared before the credential is validated: a request whose
\* credential cannot be shown to be the owner's is answered 403.
Authenticate_owner_first ==
    /\ req.pc = "Unauthenticated"
    /\ req.method # "GET"
    /\ LET credentials == security(req.scheme, held)
           r == get_current_user(credentials, now)
           td == guard_token_data(credentials, now)
           mismatch == /\ req.method \in {"PUT", "DELETE"}
                       /\ IF r.k = "User" THEN r.id # req.user_id ELSE TRUE
       IN  req' = IF mismatch
                  THEN [req EXCEPT !.pc = "Forbidden", !.token_data = td, !.status = 403,
                                   !.detail = "Cannot modify another user's rating"]
                  ELSE IF r.k = "raise" THEN Reject(r, td)
                  ELSE [req EXCEPT !.pc = "Authenticated", !.token_data = td,
                                   !.current_user = r]
    /\ UNCHANGED <<now, held, issued, ratings, reqs, decoded>>

\* Depends(get_current_user) of the write endpoints.
Authenticate ==
    /\ req.pc = "Unauthenticated"
    /\ req.method # "GET"
    /\ LET credentials == security(req.scheme, held)
           r == get_current_user(credentials, now)
           td == guard_token_data(credentials, now)
       IN  req' = IF r.k = "raise" THEN Reject(r, td)
                  ELSE [req EXCEPT !.pc = "Authenticated", !.token_data = td,
                                   !.current_user = r]
    /\ UNCHANGED <<now, held, issued, ratings, reqs, decoded>>

\* Depends(get_optional_current_user) of a public read endpoint.
AuthenticateOptional ==
    /\ req.pc = "Unauthenticated"
    /\ req.method = "GET"
    /\ LET credentials == security(req.scheme, held)
           r == get_optional_current_user(credentials, now)
           td == guard_token_data(credentials, now)
       IN  req' = IF r.k = "raise" THEN Reject(r, td)
                  ELSE [req EXCEPT !.pc = "Public", !.token_data = td,
                                   !.current_user = r]
    /\ UNCHANGED <<now, held, issued, ratings, reqs, decoded>>

\* The detail of the 403 of the owner check
forbidden_detail(method) ==
    IF method = "PUT" THEN "Cannot update another user's rating"
    ELSE "Cannot delete another user's rating"

\* The owner check left out
authorize_anyone(method, current_user, user_id) == None

\* The owner check of PUT and DELETE /courses/{course_id}/ratings/{user_id};
\* POST has none.
authorize(method, current_user, user_id) ==
    IF method \in {"PUT", "DELETE"} /\ current_user.id # user_id
    THEN HTTPException(403, forbidden_detail(method))
    ELSE None

Authorize ==
    /\ req.pc = "Authenticated"
    /\ LET r == authorize(req.method, req.current_user, req.user_id)
       IN  req' = IF r.k = "raise"
                  THEN [req EXCEPT !.pc = "Forbidden", !.status = r.status_code, !.detail = r.detail]
                  ELSE [req EXCEPT !.pc = "Authorized"]
    /\ UNCHANGED <<now, held, issued, ratings, reqs, decoded>>

\* The status of a write that ignores what delete_course_rating returned
write_status_delete_unchecked(method, ok) ==
    IF ~ok /\ method # "DELETE" THEN 404
    ELSE CASE method = "POST" -> 201
           [] method = "PUT"  -> 200
           [] OTHER           -> 204

\* Status of the response to a write, by method and service outcome
write_status(method, ok) ==
    IF ~ok THEN 404
    ELSE CASE method = "POST" -> 201
           [] method = "PUT"  -> 200
           [] OTHER           -> 204

\* The body of a write endpoint: one call of the service, then the response.
InvokeService(rating) ==
    /\ req.pc = "Authorized"
    /\ LET uid == IF req.method = "POST" THEN req.current_user.id ELSE req.user_id
           r == CASE req.method = "POST" -> add_course_rating(ratings, req.course_id, uid, rating)
                  [] req.method = "PUT"  -> update_course_rating(ratings, req.course_id, uid, rating)
                  [] OTHER               -> delete_course_rating(ratings, req.course_id, uid)
           name == CASE req.method = "POST" -> "add_course_rating"
                     [] req.method = "PUT"  -> "update_course_rating"
                     [] OTHER               -> "delete_course_rating"
       IN  /\ ratings' = r.store
           /\ req' = [req EXCEPT !.pc = "Done", !.status = write_status(req.method, r.ok),
                                 !.service_result = IF r.ok THEN "ok" ELSE "not_found",
                                 !.service_calls = Append(@, ServiceCall(name, req.course_id, uid))]
    /\ UNCHANGED <<now, held, issued, reqs, decoded>>

\* GET /courses/{course_id}/ratings/user/{user_id}: 200 with the rating, 204
\* when there is none.
ReadService ==
    /\ req.pc = "Public"
    /\ LET r == get_user_course_rating(ratings, req.course_id, req.user_id)
       IN  req' = [req EXCEPT !.pc = "Done", !.status = IF r.ok THEN 200 ELSE 204,
                              !.service_result = IF r.ok THEN "ok" ELSE "not_found",
                              !.service_calls = Append(@, ServiceCall("get_user_course_rating",
                                                                      req.course_id, req.user_id))]
    /\ UNCHANGED <<now, held, issued, ratings, reqs, decoded>>

\* The response is sent and the request, with its caller, is gone.
Close ==
    /\ req.pc \in Terminal
    /\ req' = Idle
    /\ UNCHANGED <<now, held, issued, ratings, reqs, decoded>>

Next ==
    \/ Tick
    \/ \E u \in UserIds, e \in Emails : Login(u, e)
    \/ \E token \in ForgedTokens : Forge(token)
    \/ \E m \in Methods, sch \in Schemes, c \in CourseIds, o \in {0} \cup OwnerIds :
          Receive(m, sch, c, o)
    \/ Authenticate
    \/ AuthenticateOptional
    \/ Authorize
    \/ \E rating \in RatingValues : InvokeService(rating)
    \/ ReadService
    \/ Close

Spec == Init /\ [][Next]_vars

(***************************************************************************)
(* Concurrent resolutions.  NumReq requests are in flight at once, each    *)
(* with the credential of its own Authorization header; their steps        *)
(* interleave with each other and with the clock.  A resolution ends at    *)
(* the decision: Rejected, Forbidden or Authorized.                        *)
(***************************************************************************)
\* The credentials that requests present: tokens of two users issued at
\* start-up, and one signed with another secret.
ConcTokens ==
    { create_access_token(1, JNull, 0),
      create_access_token(2, JStr("test@example.com"), 0),
      Token(jwt_algorithm, "attacker-secret", Payload(JInt(1), JNull, JInt(FarExp))) }

\* Method and owner id in the path of the requests
ConcTargets == { <<"POST", 0>>, <<"PUT", 1>>, <<"DELETE", 2>> }

\* All requests reading one shared credential slot, that of the first request
request_credentials_shared(rs, i) ==
    security(IF rs[1].cred.k = "None" THEN "none" ELSE "Bearer", rs[1].cred)

\* The credentials parameter of the guard in the resolution of request i:
\* Depends(security) on that request's own header
request_credentials(rs, i) ==
    security(IF rs[i].cred.k = "None" THEN "none" ELSE "Bearer", rs[i].cred)

CReceive(i, target, cred) ==
    /\ reqs[i].pc = "idle"
    /\ reqs' = [reqs EXCEPT ![i] = [CIdle EXCEPT !.pc = "Unauthenticated", !.method = target[1],
                                                 !.user_id = target[2], !.cred = cred]]
    /\ UNCHANGED <<now, held, issued, req, ratings, decoded>>

\* Depends(get_current_user) in the resolution of request i
CAuthenticate(i) ==
    /\ reqs[i].pc = "Unauthenticated"
    /\ LET r == get_current_user(request_credentials(reqs, i), now)
       IN  reqs' = [reqs EXCEPT ![i] =
                      IF r.k = "raise"
                      THEN [@ EXCEPT !.pc = "Rejected", !.status = r.status_code, !.detail = r.detail]
                      ELSE [@ EXCEPT !.pc = "Authenticated", !.current_user = r]]
    /\ UNCHANGED <<now, held, issued, req, ratings, decoded>>

\* The owner check in the resolution of request i
CAuthorize(i) ==
    /\ reqs[i].pc = "Authenticated"
    /\ LET r == authorize(reqs[i].method, reqs[i].current_user, reqs[i].user_id)
       IN  reqs' = [reqs EXCEPT ![i] =
                      IF r.k = "raise"
                      THEN [@ EXCEPT !.pc = "Forbidden", !.status = r.status_code, !.detail = r.detail]
                      ELSE [@ EXCEPT !.pc = "Authorized"]]
    /\ UNCHANGED <<now, held, issued, req, ratings, decoded>>

\* Request i is cancelled or times out while it is being resolved.
CCancel(i) ==
    /\ reqs[i].pc \in {"Unauthenticated", "Authenticated"}
    /\ reqs' = [reqs EXCEPT ![i] = CIdle]
    /\ UNCHANGED <<now, held, issued, req, ratings, decoded>>

\* The decision on request i is handed on and the request is gone.
CClose(i) ==
    /\ reqs[i].pc \in {"Rejected", "Forbidden", "Authorized"}
    /\ reqs' = [reqs EXCEPT ![i] = CIdle]
    /\ UNCHANGED <<now, held, issued, req, ratings, decoded>>

NextConc ==
    \/ Tick
    \/ \E i \in Requests, target \in ConcTargets, cred \in {None} \cup ConcTokens :
          CReceive(i, target, cred)
    \/ \E i \in Requests : CAuthenticate(i)
    \/ \E i \in Requests : CAuthorize(i)
    \/ \E i \in Requests : CCancel(i)
    \/ \E i \in Requests : CClose(i)

SpecConc == Init /\ [][NextConc]_vars

(***************************************************************************)
(* Decoding one token over time: decode_access_token is called for the     *)
(* held token again and again while the clock moves on.                    *)
(***************************************************************************)
Decode ==
    /\ held.k = "token"
    /\ LET r == decode_access_token(held, now)
       IN  decoded' = [seen |-> TRUE,
                       valid_seen |-> decoded.valid_seen \/ r.k = "TokenData",
                       last |-> r, at |-> now]
    /\ UNCHANGED <<now, held, issued, req, ratings, reqs>>

NextDecode ==
    \/ Tick
    \/ \E u \in UserIds, e \in Emails : Login(u, e)
    \/ \E token \in ForgedTokens : Forge(token)
    \/ Decode

SpecDecode == Init /\ [][NextDecode]_vars


(***************************************************************************)
(* Properties                                                              *)
(***************************************************************************)
\* The guard of the request in flight has run.
Resolved == req.pc \notin {"idle", "Unauthenticated"}

\* The request in flight presented held as its bearer credential.
Presented == req.pc # "idle" /\ req.scheme = "Bearer"

\* The rejection of a credential that does not validate
InvalidCredential ==
    req.pc = "Rejected" /\ req.status = 401 /\ req.detail = "Could not validate credentials"

\* C1: neither guard returns an Authenticated Caller for a token whose
\* user_id is missing or is an integer <= 0: the mandatory guard rejects with
\* 401 "Could not validate credentials", the optional guard returns no caller.
C1_NoCallerWithoutPositiveUserId ==
    (/\ Resolved /\ Presented /\ held.wellformed
     /\ \/ held.payload.user_id.t \in {"absent", "null"}
        \/ held.payload.user_id.t = "int" /\ held.payload.user_id.n <= 0)
    => /\ req.current_user.k = "None"
       /\ req.method # "GET" => InvalidCredential

\* C2: a token signed with another secret or with another algorithm decodes
\* to no claim, without a raise, and gives no guard an Authenticated Caller.
C2_ForeignSignatureYieldsNoCaller ==
    (/\ Resolved /\ Presented /\ held.wellformed
     /\ (held.key # jwt_secret_key \/ held.alg # jwt_algorithm))
    => /\ req.token_data.k = "None"
       /\ req.current_user.k = "None"
       /\ req.status # 500
       /\ req.method # "GET" => InvalidCredential
       /\ req.method = "GET" => req.pc # "Rejected"

C2_Witness ==
    /\ InvalidCredential /\ Presented
    /\ held.wellformed /\ held.key # jwt_secret_key /\ held.alg = jwt_algorithm
    /\ held.payload.exp.n * TicksPerSec > now


\* The step in which the guard of the request in flight runs, the request
\* presenting held, a token that create_access_token made.
DecodesIssued ==
    /\ req.pc = "Unauthenticated" /\ req'.pc # "Unauthenticated"
    /\ req.scheme = "Bearer" /\ issued.at >= 0

\* The claim the guard decoded is the one create_access_token encoded.
RoundTrip ==
    /\ req'.token_data.k = "TokenData"
    /\ req'.token_data.user_id = JInt(issued.user_id)
    /\ req'.token_data.email = issued.email

\* The instant, in ticks, at which the "exp" of held is reached
ExpTicks == held.payload.exp.n * TicksPerSec

\* C3 as stated: a token for a user_id > 0 decodes to the claim encoded
\* whenever it is decoded before ttl has elapsed since it was issued.
C3_RoundTripBeforeTtl ==
    [][(DecodesIssued /\ issued.user_id > 0 /\ now < issued.at + TTLTicks) => RoundTrip]_vars

\* C3: a token for a user_id > 0 decodes to the claim encoded whenever it is
\* decoded before the whole second that the issue instant plus ttl falls in.
C3_RoundTripBeforeExp ==
    [][(/\ DecodesIssued /\ issued.user_id > 0
        /\ now < ((issued.at + TTLTicks) \div TicksPerSec) * TicksPerSec) => RoundTrip]_vars

C3_Witness ==
    /\ Resolved /\ Presented /\ issued.at >= 0 /\ issued.user_id > 0
    /\ now > issued.at
    /\ req.token_data.k = "TokenData"
    /\ req.token_data.user_id = JInt(issued.user_id)
    /\ req.token_data.email = issued.email /\ issued.email.t = "str"

\* What C4 says of a decode of an issued token: a claim only while the
\* token's exp is later than now, no claim and no caller from then on.
ExpiryEnforced ==
    DecodesIssued =>
        /\ req'.token_data.k = "TokenData" => ExpTicks > now
        /\ ExpTicks <= now => /\ req'.token_data.k = "None"
                              /\ req'.current_user.k = "None"
                              /\ req'.pc # "Authenticated"

\* C4 as stated: a token issued at t carries exp = t + ttl, decodes to a
\* claim only while exp > now, and yields no claim and no caller after exp.
C4_ExpiresAtIssuePlusTtl ==
    [][/\ issued.at >= 0 => ExpTicks = issued.at + TTLTicks
       /\ ExpiryEnforced]_vars

\* C4: a token issued at t carries exp = t + ttl cut down to a whole second,
\* decodes to a claim only while exp > now, and yields no claim and no caller
\* after exp.
C4_ExpiresAtWholeSecond ==
    [][/\ issued.at >= 0 => held.payload.exp = JInt((issued.at + TTLTicks) \div TicksPerSec)
       /\ ExpiryEnforced]_vars

C4_Witness ==
    /\ InvalidCredential /\ Presented /\ issued.at >= 0
    /\ now = ExpTicks

\* C5: decode_access_token never raises and every failure to decode is the
\* one outcome None, so the mandatory guard answers every failing token with
\* the same 401 "Could not validate credentials".
C5_UniformFailure ==
    /\ req.token_data.k # "raise"
    /\ req.status # 500
    /\ (Resolved /\ Presented /\ req.current_user.k = "None")
       => /\ req.token_data.k = "None"
          /\ req.method # "GET" => InvalidCredential

C5_Witness ==
    /\ InvalidCredential /\ Presented /\ issued.at >= 0
    /\ req.method = "DELETE" /\ now > ExpTicks

\* C6: a write request without a credential is rejected with 401
\* "Authentication required", another message than that of an invalid token
\* and the same status; the mandatory guard ends in a caller or in a 401.
C6_MissingCredentialRejected ==
    (Resolved /\ req.method # "GET")
    => /\ req.scheme = "none" => /\ req.pc = "Rejected"
                                 /\ req.status = 401
                                 /\ req.detail = "Authentication required"
                                 /\ req.detail # credentials_exception.detail
                                 /\ req.status = credentials_exception.status_code
       /\ req.pc = "Rejected" => req.status = 401 /\ req.current_user.k = "None"
       /\ req.pc # "Rejected" => req.current_user.k = "User"

C6_Witness ==
    /\ req.pc = "Rejected" /\ req.method = "PUT" /\ req.scheme = "none"
    /\ req.status = 401 /\ req.detail = "Authentication required"


\* The caller of the request in flight is not the owner named in its path.
OwnerMismatch ==
    /\ req.method \in {"PUT", "DELETE"}
    /\ req.current_user.k = "User"
    /\ req.current_user.id # req.user_id

\* C7: an update or delete whose caller is not the owner in the path is
\* rejected with 403 and the message of its action; the service is not
\* invoked and the ratings stay as they were.
C7_OwnerMismatchForbidden ==
    [][OwnerMismatch =>
        /\ req.pc \in {"Authenticated", "Forbidden"}
        /\ ratings' = ratings
        /\ req'.service_calls = <<>>
        /\ (req.pc = "Authenticated" /\ req' # req) =>
              /\ req'.pc = "Forbidden"
              /\ req'.status = 403
              /\ req'.detail = IF req.method = "PUT"
                               THEN "Cannot update another user's rating"
                               ELSE "Cannot delete another user's rating"
        /\ req.pc = "Forbidden" => req' \in {req, Idle}]_vars

C7_Witness ==
    /\ OwnerMismatch /\ req.pc = "Forbidden" /\ req.status = 403
    /\ req.method = "DELETE" /\ ratings[req.user_id] # 0

\* The name of the service method a write request invokes
ServiceMethod ==
    CASE req.method = "POST" -> "add_course_rating"
      [] req.method = "PUT"  -> "update_course_rating"
      [] OTHER               -> "delete_course_rating"

\* C8: for a credential that decodes to a claim with a user_id > 0 the
\* mandatory guard produces the caller {id: claim.user_id, email:
\* claim.email}; add invokes the service for caller.id, and update and delete
\* with the caller's own id in the path are allowed and invoke it for that id.
C8_CallerIsClaim ==
    (/\ Resolved /\ req.method # "GET"
     /\ req.token_data.k = "TokenData" /\ req.token_data.user_id.n > 0)
    => /\ req.current_user = [k |-> "User", id |-> req.token_data.user_id.n,
                                            email |-> req.token_data.email]
       /\ req.current_user.id = coerce_int(held.payload.user_id).n
       /\ req.current_user.email = dict_get(held.payload.email)
       /\ (req.method = "POST" \/ req.user_id = req.current_user.id)
          => req.pc \in {"Authenticated", "Authorized", "Done"}
       /\ req.pc = "Done"
          => req.service_calls = <<ServiceCall(ServiceMethod, req.course_id,
                                               req.current_user.id)>>

C8_Witness ==
    /\ req.pc = "Done" /\ req.method = "PUT" /\ req.status = 200
    /\ req.current_user.k = "User" /\ req.current_user.email.t = "str"
    /\ req.user_id = req.current_user.id
    /\ req.service_calls[1].user_id = req.current_user.id

C10_ServiceOutcomeStatus ==
    (req.pc = "Done" /\ req.method # "GET")
    => /\ Len(req.service_calls) = 1
       /\ req.service_result \in {"ok", "not_found"}
       /\ req.service_result = "not_found" => req.status = 404
       /\ req.service_result = "ok" =>
             req.status = CASE req.method = "POST" -> 201
                            [] req.method = "PUT"  -> 200
                            [] OTHER               -> 204

C10_Witness ==
    /\ req.pc = "Done" /\ req.method = "DELETE"
    /\ req.service_result = "not_found" /\ req.status = 404


\* The outcome of resolving request r alone at instant t, read off its own
\* credential, the clock and the configured secret and algorithm: the caller,
\* or the status and message of the rejection.
AloneAuthenticated(r, t) ==
    /\ r.cred.k = "token" /\ r.cred.wellformed
    /\ r.cred.key = jwt_secret_key /\ r.cred.alg = jwt_algorithm
    /\ r.cred.payload.exp.n * TicksPerSec > t

AgreesWithAlone(r, after, t) ==
    IF AloneAuthenticated(r, t)
    THEN /\ after.pc = "Authenticated"
         /\ after.current_user = [k |-> "User", id |-> r.cred.payload.user_id.n,
                                              email |-> r.cred.payload.email]
    ELSE /\ after.pc = "Rejected" /\ after.status = 401
         /\ after.current_user.k = "None"
         /\ after.detail = IF r.cred.k = "None" THEN "Authentication required"
                           ELSE "Could not validate credentials"

AuthorizedAlone(r, after) ==
    IF r.method \in {"PUT", "DELETE"} /\ r.current_user.id # r.user_id
    THEN after.pc = "Forbidden" /\ after.status = 403
    ELSE after.pc = "Authorized" /\ after.status = 0

\* C11: under every interleaving each request's authentication and
\* authorization outcome is the one it has when resolved alone at the same
\* instant, and a step of one resolution, a cancellation included, changes
\* neither another request nor the state the resolutions share.
C11_ResolutionsIndependent ==
    [][\A i \in Requests :
        /\ (reqs[i].pc = "Unauthenticated" /\ reqs'[i].pc \notin {"Unauthenticated", "idle"})
           => AgreesWithAlone(reqs[i], reqs'[i], now)
        /\ (reqs[i].pc = "Authenticated" /\ reqs'[i].pc \notin {"Authenticated", "idle"})
           => AuthorizedAlone(reqs[i], reqs'[i])
        /\ reqs'[i] # reqs[i]
           => /\ \A j \in Requests \ {i} : reqs'[j] = reqs[j]
              /\ UNCHANGED <<now, held, issued, req, ratings, decoded>>]_vars

\* Two requests resolved while both were in flight, with different outcomes
C11_Witness ==
    /\ reqs[1].pc = "Forbidden" /\ reqs[1].current_user.id = 2
    /\ reqs[2].pc = "Rejected" /\ reqs[2].cred.k = "token"
    /\ reqs[2].cred.key = jwt_secret_key /\ now >= TTLTicks


\* The steps a protected write request takes
WriteTransitions ==
    { <<"idle", "Unauthenticated">>,
      <<"Unauthenticated", "Authenticated">>, <<"Unauthenticated", "Rejected">>,
      <<"Authenticated", "Authorized">>, <<"Authenticated", "Forbidden">>,
      <<"Authorized", "Done">>,
      <<"Rejected", "idle">>, <<"Forbidden", "idle">>, <<"Done", "idle">> }

\* C12: a protected write goes Unauthenticated -> Authenticated ->
\* {Authorized, Forbidden} -> terminal, each step once: the owner check runs
\* only on an authenticated request and before any mutation, a missing or
\* invalid credential is answered 401, never 403, whatever the owner in the
\* path, and the service is reached only from Authorized.
C12_AuthenticateAuthorizeMutate ==
    [][/\ (req' # req /\ "GET" \notin {req.method, req'.method})
          => <<req.pc, req'.pc>> \in WriteTransitions
       /\ (req'.method # "GET" /\ req'.pc \in {"Authenticated", "Authorized", "Forbidden", "Done"})
          => /\ req'.current_user.k = "User"
             /\ req'.token_data.k = "TokenData"
       /\ (req'.method # "GET" /\ req'.status = 403)
          => req.pc \in {"Authenticated", "Forbidden"}
       /\ (req.pc = "Unauthenticated" /\ req'.pc # "Unauthenticated" /\ req.method # "GET"
           /\ \/ req.scheme # "Bearer"
              \/ ~held.wellformed
              \/ held.key # jwt_secret_key
              \/ held.alg # jwt_algorithm
              \/ (held.payload.exp.t = "int" /\ held.payload.exp.n * TicksPerSec <= now))
          => req'.pc = "Rejected" /\ req'.status = 401
       /\ (ratings' # ratings \/ (req.method # "GET" /\ req'.service_calls # req.service_calls))
          => \/ req'.pc = "idle" /\ ratings' = ratings
             \/ /\ req.pc = "Authorized"
                /\ req.current_user.k = "User"
                /\ req.method \in {"PUT", "DELETE"} => req.current_user.id = req.user_id]_vars

\* An invalid credential on a path that names another owner: 401, not 403
C12_Witness ==
    /\ req.pc = "Rejected" /\ req.status = 401 /\ req.method = "PUT"
    /\ Presented /\ held.wellformed /\ held.key # jwt_secret_key
    /\ held.payload.user_id.n # req.user_id


====
